---- MODULE Spec2Model ----
(***************************************************************************)
(* Model of the GPU particle demo: the ComputeParticleSystem orchestrator, *)
(* the WGSL particle kernel it dispatches, and the application layer       *)
(* (AppEngine, SceneManager, WaterfallScene) that selects the backend.     *)
(*                                                                         *)
(* Numbers.  The source computes in 32-bit floats.  The model uses fixed   *)
(* point with three decimals: a length 1.0 is 1000, a velocity 1.0/s is    *)
(* 1000, a time of 1 s is 1000 (so deltaTime is in milliseconds), and a    *)
(* random number in [0,1] is 0..1000.                                      *)
(*                                                                         *)
(* Particle buffer.  The host uploads 8 floats per particle.  The kernel   *)
(* reads the same buffer as array<Particle>, whose elements are 12 words   *)
(* long.  The store keeps the uploaded words and the elements the kernel   *)
(* has written; an access past the last whole element has either outcome   *)
(* a device can give it.                                                   *)
(***************************************************************************)
EXTENDS Integers, Sequences, FiniteSets, TLC

\* ------------------------------------------------------------------------
\* Bounds of the model (not program constants)
\* ------------------------------------------------------------------------

\* API calls made on one orchestrator instance in one behaviour
MaxCalls == 5

\* ------------------------------------------------------------------------
\* Program constants
\* ------------------------------------------------------------------------

\* @workgroup_size(64, 1, 1) in the kernel; the literal 64 in update()
WorkgroupSize == 64

\* Math.min(deltaTime, 0.033) in update(), in milliseconds
MaxDeltaTime == 33

\* params.deltaTime set by the constructor (0.016 s)
InitialDeltaTime == 16

\* default of the constructor's particleCount parameter; the count the
\* waterfall scene passes
DefaultParticleCount == 50000

\* ------------------------------------------------------------------------
\* Inputs
\* ------------------------------------------------------------------------

\* the two engine classes AppEngine can create
EngineKinds == {"WebGPU", "WebGL2"}

\* particle counts handed to the constructor
ParticleCounts == {1, 2, 63, 64, 65, DefaultParticleCount}

\* frame times handed to update(), in milliseconds
DeltaTimes == {0, 16, 33, 34, 100}

\* the step of initialize() at which resource creation throws ("none": none)
InitFailures == {"none", "particleBuffer", "paramsBuffer", "obstacleBuffer", "computeShader"}

\* seeds of the host random stream (Math.random)
Seeds == {1, 2, 3}

VARIABLES
  cps,        \* the ComputeParticleSystem instance (its private fields)
  paramsGpu,  \* contents of the uniform parameter block on the GPU
  particles,  \* contents of the particle storage buffer
  gpuQueue,   \* dispatches issued and not yet completed, oldest first
  lanes,      \* progress of the dispatch at the head of gpuQueue
  call,       \* the last API call on the orchestrator and its outcome
  hist,       \* history of the instance: what has been called so far
  appEngine,     \* the AppEngine instance
  sceneManager,  \* the SceneManager instance
  waterfall,     \* the WaterfallScene instance
  cyberpunk,     \* the CyberpunkCityScene instance
  app,           \* the Application: position in init(), the render loop
  eval           \* the last evaluation of a kernel function on chosen inputs

orchVars == <<cps, paramsGpu, particles, gpuQueue, lanes, call, hist>>

appVars == <<appEngine, sceneManager, waterfall, cyberpunk, app>>

vars == <<cps, paramsGpu, particles, gpuQueue, lanes, call, hist,
          appEngine, sceneManager, waterfall, cyberpunk, app, eval>>

\* ------------------------------------------------------------------------
\* ComputeParticleSystem: state
\* ------------------------------------------------------------------------

\* a field that holds a GPU resource is "null", "live" or "disposed"

\* the params record built by the constructor (the fields the model varies;
\* gravity, damping, viscosity and the emitter are fixed, see below)
ConstructorParams(particleCount) ==
  [deltaTime |-> InitialDeltaTime, particleCount |-> particleCount]

\* no instance exists
NoSystem ==
  [exists |-> FALSE, computeShader |-> "null", particleBuffer |-> "null",
   paramsBuffer |-> "null", obstacleBuffer |-> "null", particleCount |-> 0,
   params |-> ConstructorParams(0)]

NoParams == [written |-> FALSE, deltaTime |-> 0, particleCount |-> 0]

NoParticles == [uploaded |-> FALSE, seed |-> 0, count |-> 0, slots |-> [i \in {} |-> 0]]

NoLanes ==
  [running |-> FALSE, block |-> NoParams, groups |-> 0, done |-> {}, idleLeft |-> 0,
   pre |-> NoParticles]

NoCall ==
  [op |-> "none", outcome |-> "none", events |-> <<>>, dt |-> 0, groups |-> 0,
   wasInitialized |-> FALSE, wasDisposed |-> FALSE]

NoHist ==
  [initAttempted |-> FALSE, initialized |-> FALSE, disposed |-> FALSE,
   disposeCalls |-> 0, dispatches |-> 0, calls |-> 0, requested |-> 0]

\* ------------------------------------------------------------------------
\* Host random stream and the initial particle data
\* ------------------------------------------------------------------------

\* Math.random(): a deterministic stream of values in [0,1) fixed by a hidden
\* seed.  Sixteen values per seed, repeated; 0 and 999 (0.999) both occur.
RandomTable(seed) ==
  CASE seed = 1 -> <<500, 0, 500, 500, 0, 500, 0, 0,
                     600, 100, 500, 750, 999, 250, 4, 999>>
    [] seed = 2 -> <<0, 999, 999, 0, 0, 999, 10, 500,
                     100, 900, 900, 999, 500, 0, 999, 0>>
    [] OTHER    -> <<999, 999, 999, 999, 999, 999, 0, 999,
                     0, 0, 0, 0, 0, 0, 7, 0>>

\* the k-th call of Math.random() (k = 0, 1, ...)
HostRandom(seed, k) == RandomTable(seed)[(k % 16) + 1]

\* initializeParticleData() with the life of the kernel's respawn (5 + r * 3)
initializeParticleData_RespawnLife(seed, offset) ==
  LET r == HostRandom(seed, offset)
      field == offset % 8
  IN CASE field \in {0, 2, 3, 5} -> (r - 500) * 2
       [] field = 1 -> 10000 + r * 2
       [] field = 4 -> (0 - 1000) - r * 2
       [] field = 6 -> 5000 + r * 3
       [] OTHER     -> 50 + (r * 50) \div 1000

\* data[offset] as initializeParticleData() fills it: particle offset \div 8,
\* field offset % 8, one Math.random() call per float in array order
initializeParticleData(seed, offset) ==
  LET r == HostRandom(seed, offset)
      field == offset % 8
  IN CASE field \in {0, 2, 3, 5} -> (r - 500) * 2
       [] field = 1 -> 10000 + r * 2
       [] field = 4 -> (0 - 1000) - r * 2
       [] field = 6 -> r * 5
       [] OTHER     -> 50 + (r * 50) \div 1000

\* floats per particle in the host array (position 3, velocity 3, life, size)
FloatsPerParticle == 8

\* length of the Float32Array handed to the particle buffer
ParticleDataLength(particleCount) == particleCount * FloatsPerParticle

\* record i of the uploaded array, field by field in the host's order
UploadedParticle(seed, i) ==
  LET f(k) == initializeParticleData(seed, i * FloatsPerParticle + k)
  IN [position |-> <<f(0), f(1), f(2)>>,
      velocity |-> <<f(3), f(4), f(5)>>,
      life |-> f(6),
      size |-> f(7)]

\* 32-bit words of one element of array<Particle>: a vec3<f32> is aligned
\* to 16 bytes, so position is at words 0-2, velocity at words 4-6, life at
\* word 7, size at word 8, and the element is 48 bytes long
WordsPerParticle == 12

\* arrayLength(&particles): the whole elements that fit in the buffer
arrayLength(store) == ParticleDataLength(store.count) \div WordsPerParticle

\* element i of array<Particle> as the kernel reads it from the uploaded
\* words
KernelParticle(seed, i) ==
  LET w(k) == initializeParticleData(seed, i * WordsPerParticle + k)
  IN [position |-> <<w(0), w(1), w(2)>>,
      velocity |-> <<w(4), w(5), w(6)>>,
      life |-> w(7),
      size |-> w(8)]

\* element i < arrayLength as the store holds it now: the kernel's last
\* write to it, or the uploaded words when it was never written
ParticleAt(store, i) ==
  IF i \in DOMAIN store.slots THEN store.slots[i] ELSE KernelParticle(store.seed, i)

\* what the device does with an access past the last element of the
\* binding: it clamps the index to the last element, or it loads zeros and
\* skips the store
OutOfBounds == {"clamp", "zeroSkip"}

ZeroParticle == [position |-> <<0, 0, 0>>, velocity |-> <<0, 0, 0>>, life |-> 0, size |-> 0]

\* the value of the expression particles[i]
ParticleRead(store, i, robust) ==
  LET last == arrayLength(store) - 1
  IN IF i > last /\ robust = "zeroSkip"
       THEN ZeroParticle
       ELSE ParticleAt(store, IF i > last THEN last ELSE i)

\* the store after the assignment particles[i] = p
ParticleWrite(store, i, p, robust) ==
  LET last == arrayLength(store) - 1
  IN IF i > last /\ robust = "zeroSkip"
       THEN store
       ELSE [store EXCEPT !.slots = ((IF i > last THEN last ELSE i) :> p) @@ @]

\* particleBuffer.update(particleData)
UploadedStore(seed, particleCount) ==
  [uploaded |-> TRUE, seed |-> seed, count |-> particleCount, slots |-> [i \in {} |-> 0]]

\* ------------------------------------------------------------------------
\* Simulation parameters and obstacles fixed by the orchestrator
\* ------------------------------------------------------------------------

\* params.gravity = (0, -9.81, 0)
Gravity == <<0, 0 - 9810, 0>>

\* params.damping = 0.99
Damping == 990

\* params.viscosity = 0.02
Viscosity == 20

\* params.emitterPosition = (0, 10, 0)
EmitterPosition == <<0, 10000, 0>>

\* params.emitterRadius = 2.0
EmitterRadius == 2000

\* the obstacle array initializeObstacles() uploads
Obstacles ==
  << [position |-> <<2000, 0, 0>>, radius |-> 1500],
     [position |-> <<0 - 2000, 0 - 2000, 1000>>, radius |-> 1200],
     [position |-> <<0, 0 - 5000, 0 - 2000>>, radius |-> 1800],
     [position |-> <<3000, 0 - 3000, 2000>>, radius |-> 1000],
     [position |-> <<0 - 3000, 0 - 1000, 0 - 1000>>, radius |-> 1300] >>

\* ------------------------------------------------------------------------
\* Kernel arithmetic: u32 as two 16-bit halves, floats as fixed point
\* ------------------------------------------------------------------------

\* the u32 value n, for 0 <= n < 2^31
U32(n) == [h |-> n \div 65536, l |-> n % 65536]

\* a + b modulo 2^32
Add32(a, b) ==
  [h |-> (a.h + b.h + ((a.l + b.l) \div 65536)) % 65536, l |-> (a.l + b.l) % 65536]

\* x * y modulo 2^16, for 16-bit x and y
MulLow16(x, y) == (x * (y % 256) + ((x * (y \div 256)) % 256) * 256) % 65536

\* the 32-bit product x * y of 16-bit x and y
Mul16(x, y) ==
  LET p1 == x * (y % 256)
      p2 == x * (y \div 256)
      t == p1 + (p2 % 256) * 256
  IN [h |-> (t \div 65536) + (p2 \div 256), l |-> t % 65536]

\* a * b modulo 2^32
Mul32(a, b) ==
  LET ll == Mul16(a.l, b.l)
  IN [h |-> (ll.h + MulLow16(a.h, b.l) + MulLow16(a.l, b.h)) % 65536, l |-> ll.l]

RECURSIVE Pow2(_)
Pow2(k) == IF k = 0 THEN 1 ELSE 2 * Pow2(k - 1)

\* a >> s, for 0 <= s < 32
Shr32(a, s) ==
  IF s >= 16
    THEN [h |-> 0, l |-> a.h \div Pow2(s - 16)]
    ELSE [h |-> a.h \div Pow2(s),
          l |-> (a.l \div Pow2(s)) + (a.h % Pow2(s)) * Pow2(16 - s)]

RECURSIVE XorBits(_, _, _)
XorBits(x, y, n) ==
  IF n = 0 THEN 0
  ELSE ((x + y) % 2) + 2 * XorBits(x \div 2, y \div 2, n - 1)

\* a ^ b
Xor32(a, b) == [h |-> XorBits(a.h, b.h, 16), l |-> XorBits(a.l, b.l, 16)]

\* f32(state) taken as exact
F32FromU32_Exact(a) == a

\* f32(state): the u32 rounded to 24 significant bits, ties to even; the
\* result can be 2^32 (h = 65536, l = 0)
F32FromU32(a) ==
  IF a.h < 256 THEN a
  ELSE LET e == CHOOSE k \in 1..8 : a.h >= Pow2(7 + k) /\ a.h < Pow2(8 + k)
           q == Pow2(e)
           rem == a.l % q
           kept == a.l - rem
           up == rem * 2 > q \/ (rem * 2 = q /\ (a.l \div q) % 2 = 1)
           low == IF up THEN kept + q ELSE kept
       IN [h |-> a.h + (low \div 65536), l |-> low % 65536]

\* n / d rounded to the nearest integer (halves up), for d > 0
RoundDiv(n, d) == (2 * n + d) \div (2 * d)

\* the product of two fixed-point numbers
FMul(a, b) == RoundDiv(a * b, 1000)

VAdd(u, v) == <<u[1] + v[1], u[2] + v[2], u[3] + v[3]>>

VSub(u, v) == <<u[1] - v[1], u[2] - v[2], u[3] - v[3]>>

\* vector times fixed-point scalar
VScale(u, k) == <<FMul(u[1], k), FMul(u[2], k), FMul(u[3], k)>>

Dot(u, v) == FMul(u[1], v[1]) + FMul(u[2], v[2]) + FMul(u[3], v[3])

Abs(x) == IF x < 0 THEN 0 - x ELSE x

RECURSIVE SqrtSearch(_, _, _)
SqrtSearch(x, lo, hi) ==
  IF lo = hi THEN lo
  ELSE LET mid == (lo + hi + 1) \div 2
       IN IF mid * mid <= x THEN SqrtSearch(x, mid, hi) ELSE SqrtSearch(x, lo, mid - 1)

\* floor of the square root, for 0 <= x < 2^31
ISqrt(x) == SqrtSearch(x, 0, 46340)

\* whether |u| < r, for a fixed-point vector u and 0 <= r <= 10000
\* (a component of r or more decides it without squaring)
ShorterThan(u, r) ==
  /\ Abs(u[1]) < r /\ Abs(u[2]) < r /\ Abs(u[3]) < r
  /\ u[1] * u[1] + u[2] * u[2] + u[3] * u[3] < r * r

\* whether |u| > r, for 0 <= r <= 10000
LongerThan(u, r) ==
  \/ Abs(u[1]) > r \/ Abs(u[2]) > r \/ Abs(u[3]) > r
  \/ u[1] * u[1] + u[2] * u[2] + u[3] * u[3] > r * r

\* length(u), for |u| < 10000
Length(u) == ISqrt(u[1] * u[1] + u[2] * u[2] + u[3] * u[3])

\* normalize(u), for 0 < |u| < 10000; the zero vector stays zero
Normalize(u) ==
  LET len == Length(u)
  IN IF len = 0 THEN <<0, 0, 0>>
     ELSE <<RoundDiv(u[1] * 1000, len), RoundDiv(u[2] * 1000, len),
            RoundDiv(u[3] * 1000, len)>>

\* reflect without the factor 2: the normal component is removed, not reversed
Reflect_Projected(v, n) == VSub(v, VScale(n, Dot(n, v)))

\* reflect(v, n) = v - 2 * dot(n, v) * n
Reflect(v, n) == VSub(v, VScale(n, 2 * Dot(n, v)))

\* ------------------------------------------------------------------------
\* Kernel: hash, random3, checkObstacleCollision, applyViscosity, main
\* ------------------------------------------------------------------------

\* state = state * 747796405u + 2891336453u
HashStep1(state) ==
  Add32(Mul32(state, [h |-> 11410, l |-> 30645]), [h |-> 44118, l |-> 19205])

\* state = ((state >> ((state >> 28u) + 4u)) ^ state) * 277803737u
HashStep2(state) ==
  Mul32(Xor32(Shr32(state, (state.h \div 4096) + 4), state), [h |-> 4238, l |-> 62169])

\* state = (state >> 22u) ^ state
HashStep3(state) == Xor32(Shr32(state, 22), state)

\* the value of state at the end of hash(p), before the conversion to float
HashState(p) == HashStep3(HashStep2(HashStep1(p)))

\* r / 4294967295.0 for an f32 r; the divisor is 2^32 as an f32, so the
\* quotient is exact.  In thousandths, rounded down: 1000 means exactly 1.0
UnitFloat(r) == (r.h * 1000 + ((r.l * 1000) \div 65536)) \div 65536

\* hash(p) = f32(state) / 4294967295.0
hash(p) == UnitFloat(F32FromU32(HashState(p)))

random3(seed) ==
  <<hash(seed), hash(Add32(seed, U32(1))), hash(Add32(seed, U32(2)))>>

\* the obstacle loop without the energy loss of a collision
RECURSIVE CollisionLoop_NoLoss(_, _, _, _)
CollisionLoop_NoLoss(i, pos, vel, newVel) ==
  IF i > Len(Obstacles) THEN newVel
  ELSE LET obstacle == Obstacles[i]
           toObstacle == VSub(pos, obstacle.position)
       IN IF ShorterThan(toObstacle, obstacle.radius)
            THEN CollisionLoop_NoLoss(i + 1, pos, vel, Reflect(vel, Normalize(toObstacle)))
            ELSE CollisionLoop_NoLoss(i + 1, pos, vel, newVel)

\* the obstacle loop leaving at the first obstacle that contains the particle
RECURSIVE CollisionLoop_BreakAtFirst(_, _, _, _)
CollisionLoop_BreakAtFirst(i, pos, vel, newVel) ==
  IF i > Len(Obstacles) THEN newVel
  ELSE LET obstacle == Obstacles[i]
           toObstacle == VSub(pos, obstacle.position)
       IN IF ShorterThan(toObstacle, obstacle.radius)
            THEN VScale(Reflect(vel, Normalize(toObstacle)), 600)
            ELSE CollisionLoop_BreakAtFirst(i + 1, pos, vel, newVel)

\* the loop of checkObstacleCollision from obstacle i on
RECURSIVE CollisionLoop(_, _, _, _)
CollisionLoop(i, pos, vel, newVel) ==
  IF i > Len(Obstacles) THEN newVel
  ELSE LET obstacle == Obstacles[i]
           toObstacle == VSub(pos, obstacle.position)
       IN IF ShorterThan(toObstacle, obstacle.radius)
            THEN CollisionLoop(i + 1, pos, vel,
                               VScale(Reflect(vel, Normalize(toObstacle)), 600))
            ELSE CollisionLoop(i + 1, pos, vel, newVel)

checkObstacleCollision(pos, vel) == CollisionLoop(1, pos, vel, vel)

\* max(1u, params.particleCount / 1000u)
SampleStep(particleCount) ==
  IF particleCount \div 1000 > 1 THEN particleCount \div 1000 ELSE 1

\* whether the particle at otherPos counts as a neighbour of the one at pos
Neighbour(pos, otherPos) ==
  LET d == VSub(pos, otherPos)
  IN ShorterThan(d, 500) /\ LongerThan(d, 1)

\* <<avgVel, count>> after the body of the loop has run on particle other
Sampled(pos, other, acc) ==
  IF Neighbour(pos, other.position)
    THEN <<VAdd(acc[1], other.velocity), acc[2] + 1>>
    ELSE acc

\* the loop of applyViscosity from i on; acc is <<avgVel, count>>
RECURSIVE ViscosityLoop(_, _, _, _, _, _, _)
ViscosityLoop(i, index, pos, store, block, robust, acc) ==
  IF i >= block.particleCount THEN acc
  ELSE ViscosityLoop(i + SampleStep(block.particleCount), index, pos, store, block, robust,
                     IF i = index THEN acc
                     ELSE Sampled(pos, ParticleRead(store, i, robust), acc))

\* mix(x, y, a) = x * (1 - a) + y * a
Mix(x, y, a) == RoundDiv(x * (1000 - a) + y * a, 1000)

\* avgVel / count
Average(acc) ==
  <<RoundDiv(acc[1][1], acc[2]), RoundDiv(acc[1][2], acc[2]), RoundDiv(acc[1][3], acc[2])>>

\* mix(vel, avg, params.viscosity)
MixVelocity(vel, avg) ==
  <<Mix(vel[1], avg[1], Viscosity), Mix(vel[2], avg[2], Viscosity),
    Mix(vel[3], avg[3], Viscosity)>>

applyViscosity(index, pos, vel, store, block, robust) ==
  MixVelocity(vel, Average(ViscosityLoop(0, index, pos, store, block, robust, <<vel, 1>>)))

\* the respawned particle with the y velocity pointing up
Respawned_UpwardVelocity(rand) ==
  [position |-> VAdd(EmitterPosition,
                     VScale(<<rand[1] - 500, rand[2] - 500, rand[3] - 500>>, EmitterRadius)),
   velocity |-> <<(rand[1] - 500) * 2, 1000 + rand[2] * 2, (rand[3] - 500) * 2>>,
   life |-> 5000 + rand[1] * 3,
   size |-> 50 + FMul(rand[2], 50)]

\* the particle the respawn branch builds from rand
Respawned(rand) ==
  [position |-> VAdd(EmitterPosition,
                     VScale(<<rand[1] - 500, rand[2] - 500, rand[3] - 500>>, EmitterRadius)),
   velocity |-> <<(rand[1] - 500) * 2, (0 - 1000) - rand[2] * 2, (rand[3] - 500) * 2>>,
   life |-> 5000 + rand[1] * 3,
   size |-> 50 + FMul(rand[2], 50)]

\* the respawn branch of main
Respawn(index, block) == Respawned(random3(U32(index + block.deltaTime)))

\* the ground collision with the plane at +10.0 in the test
GroundCollision_WrongHeight(p) ==
  IF p.position[2] < 10000
    THEN [p EXCEPT !.position[2] = 0 - 10000,
                   !.velocity = <<FMul(p.velocity[1], 800), FMul(p.velocity[2], 0 - 300),
                                  FMul(p.velocity[3], 800)>>]
    ELSE p

\* the ground collision of main
GroundCollision(p) ==
  IF p.position[2] < 0 - 10000
    THEN [p EXCEPT !.position[2] = 0 - 10000,
                   !.velocity = <<FMul(p.velocity[1], 800), FMul(p.velocity[2], 0 - 300),
                                  FMul(p.velocity[3], 800)>>]
    ELSE p

\* the particle with its velocity set and its position advanced by it
Moved(particle, velocity, deltaTime) ==
  [particle EXCEPT !.velocity = velocity,
                   !.position = VAdd(particle.position, VScale(velocity, deltaTime))]

\* the physics branch of main
Integrate(index, particle, store, block, robust) ==
  LET v1 == applyViscosity(index, particle.position, particle.velocity, store, block, robust)
      v2 == checkObstacleCollision(particle.position, v1)
      v3 == VScale(VAdd(v2, VScale(Gravity, block.deltaTime)), Damping)
  IN [GroundCollision(Moved(particle, v3, block.deltaTime)) EXCEPT
        !.life = @ - block.deltaTime]

\* the particle lane index writes back, from the store as it is when it runs
UpdatedParticle(index, store, block, robust) ==
  LET particle == ParticleRead(store, index, robust)
  IN IF particle.life <= 0
       THEN Respawn(index, block)
       ELSE Integrate(index, particle, store, block, robust)

\* main with the bounds check `index > params.particleCount`
main_BoundsCheckOffByOne(index, store, block, robust) ==
  IF index > block.particleCount
    THEN store
    ELSE ParticleWrite(store, index, UpdatedParticle(index, store, block, robust), robust)

\* main(global_id) for lane index: the store after the lane has run
main(index, store, block, robust) ==
  IF index >= block.particleCount
    THEN store
    ELSE ParticleWrite(store, index, UpdatedParticle(index, store, block, robust), robust)

\* ------------------------------------------------------------------------
\* ComputeParticleSystem: operations
\* ------------------------------------------------------------------------

\* a call on the instance is counted; MaxCalls bounds a behaviour
CanCall == cps.exists /\ hist.calls < MaxCalls

Called == [hist EXCEPT !.calls = @ + 1]

CallRecord(op, outcome, events, dt) ==
  [op |-> op, outcome |-> outcome, events |-> events, dt |-> dt, groups |-> 0,
   wasInitialized |-> hist.initialized, wasDisposed |-> hist.disposed]

\* constructor: throws unless the engine is a WebGPUEngine
ConstructorThrows(engineKind) == engineKind # "WebGPU"

ConstructedSystem(particleCount) ==
  [exists |-> TRUE, computeShader |-> "null", particleBuffer |-> "null",
   paramsBuffer |-> "null", obstacleBuffer |-> "null",
   particleCount |-> particleCount, params |-> ConstructorParams(particleCount)]

ComputeParticleSystem_constructor(engineKind, particleCount) ==
  /\ ~cps.exists
  /\ hist.calls = 0
  /\ IF ConstructorThrows(engineKind)
       THEN cps' = NoSystem
       ELSE cps' = ConstructedSystem(particleCount)
  /\ call' = CallRecord("constructor",
                        IF ConstructorThrows(engineKind) THEN "error" ELSE "ok",
                        <<>>, 0)
  /\ hist' = [hist EXCEPT !.calls = 1, !.requested = particleCount]
  /\ UNCHANGED <<paramsGpu, particles, gpuQueue, lanes>>

\* updateParamsBuffer() uploading the number of dispatched lanes as the count
updateParamsBuffer_LaneCount(sys, block) ==
  IF sys.paramsBuffer = "null"
    THEN block
    ELSE [written |-> TRUE, deltaTime |-> sys.params.deltaTime,
          particleCount |-> ((sys.params.particleCount \div 64) + 1) * 64]

\* updateParamsBuffer(): what the parameter block holds afterwards
updateParamsBuffer(sys, block) ==
  IF sys.paramsBuffer = "null"
    THEN block
    ELSE [written |-> TRUE, deltaTime |-> sys.params.deltaTime,
          particleCount |-> sys.params.particleCount]

\* the fields initialize() has assigned when creation fails at step failAt
\* (the order is particleBuffer, paramsBuffer, obstacleBuffer, computeShader)
InitializedFields(sys, failAt) ==
  [sys EXCEPT
     !.particleBuffer = IF failAt = "particleBuffer" THEN @ ELSE "live",
     !.paramsBuffer = IF failAt \in {"particleBuffer", "paramsBuffer"} THEN @ ELSE "live",
     !.obstacleBuffer =
        IF failAt \in {"particleBuffer", "paramsBuffer", "obstacleBuffer"} THEN @ ELSE "live",
     !.computeShader = IF failAt = "none" THEN "live" ELSE @]

ComputeParticleSystem_initialize(failAt, seed) ==
  /\ CanCall
  /\ ~hist.initAttempted
  /\ ~hist.disposed
  /\ LET sys == InitializedFields(cps, failAt)
     IN /\ cps' = sys
        /\ particles' = IF sys.particleBuffer = "live"
                          THEN UploadedStore(seed, cps.particleCount)
                          ELSE particles
        /\ paramsGpu' = updateParamsBuffer(sys, paramsGpu)
  /\ call' = CallRecord("initialize", IF failAt = "none" THEN "ok" ELSE "error",
                        IF failAt \in {"particleBuffer", "paramsBuffer"}
                          THEN <<>> ELSE <<"params.update">>, 0)
  /\ hist' = [Called EXCEPT !.initAttempted = TRUE, !.initialized = (failAt = "none")]
  /\ UNCHANGED <<gpuQueue, lanes>>

\* update() without the cap on the frame time
ClampDeltaTime_Unclamped(deltaTime) == deltaTime

\* Math.min(deltaTime, 0.033)
ClampDeltaTime(deltaTime) == IF deltaTime < MaxDeltaTime THEN deltaTime ELSE MaxDeltaTime

\* Math.ceil(n / d) for n >= 0, d > 0
Ceil(n, d) == IF n % d = 0 THEN n \div d ELSE (n \div d) + 1

\* Math.floor in place of Math.ceil
WorkgroupCount_Floor(particleCount) == particleCount \div WorkgroupSize

\* Math.ceil(this.particleCount / 64)
WorkgroupCount(particleCount) == Ceil(particleCount, WorkgroupSize)

\* lanes a dispatch of groups workgroups runs
LaneCount(groups) == groups * WorkgroupSize

\* lanes of the dispatch whose index is below particleCount
ActiveLanes(groups, block) ==
  IF LaneCount(groups) < block.particleCount THEN LaneCount(groups) ELSE block.particleCount

\* progress of a dispatch that has just started on store
StartedLanes(groups, block, store) ==
  [running |-> groups > 0, block |-> block, groups |-> groups, done |-> {},
   idleLeft |-> LaneCount(groups) - ActiveLanes(groups, block),
   pre |-> store]

\* computeShader.dispatch(groups, 1, 1): the dispatch starts when the GPU is
\* idle and waits in the queue otherwise
Dispatch(groups, block) ==
  IF ~lanes.running /\ gpuQueue = <<>>
    THEN /\ lanes' = StartedLanes(groups, block, particles)
         /\ UNCHANGED gpuQueue
    ELSE /\ gpuQueue' = Append(gpuQueue, [groups |-> groups, block |-> block])
         /\ UNCHANGED lanes

\* update(deltaTime).  rejects: whether the engine throws when a released
\* resource is used (the library's choice, the orchestrator does not check)
ComputeParticleSystem_update(deltaTime, rejects) ==
  /\ CanCall
  /\ IF cps.computeShader = "null"
       THEN /\ call' = CallRecord("update", "silent", <<>>, deltaTime)
            /\ hist' = Called
            /\ UNCHANGED <<cps, paramsGpu, gpuQueue, lanes>>
       ELSE LET sys == [cps EXCEPT !.params.deltaTime = ClampDeltaTime(deltaTime)]
                block == updateParamsBuffer(sys, paramsGpu)
                groups == WorkgroupCount(cps.particleCount)
                released == "disposed" \in {cps.paramsBuffer, cps.computeShader,
                                            cps.particleBuffer, cps.obstacleBuffer}
            IN /\ cps' = sys
               /\ IF released /\ rejects
                    THEN /\ call' = CallRecord("update", "error", <<"params.update">>,
                                               deltaTime)
                         /\ hist' = Called
                         /\ UNCHANGED <<paramsGpu, gpuQueue, lanes>>
                    ELSE /\ paramsGpu' = block
                         /\ Dispatch(groups, block)
                         /\ call' = [CallRecord("update", "ok",
                                                <<"params.update", "dispatch">>, deltaTime)
                                       EXCEPT !.groups = groups]
                         /\ hist' = [Called EXCEPT !.dispatches = @ + 1]
  /\ UNCHANGED particles

\* dispose(): releases what is held; no field is reset to null
Released(resource) == IF resource = "null" THEN "null" ELSE "disposed"

ComputeParticleSystem_dispose ==
  /\ CanCall
  /\ cps' = [cps EXCEPT !.particleBuffer = Released(@), !.paramsBuffer = Released(@),
                        !.obstacleBuffer = Released(@), !.computeShader = Released(@)]
  /\ call' = CallRecord("dispose", "ok", <<>>, 0)
  /\ hist' = [Called EXCEPT !.disposed = TRUE, !.disposeCalls = @ + 1]
  /\ UNCHANGED <<paramsGpu, particles, gpuQueue, lanes>>

\* read accessors
getParticleCount == cps.particleCount

getParticleBuffer == cps.particleBuffer

\* ------------------------------------------------------------------------
\* GPU: execution of a dispatch, one lane at a time in any order
\* ------------------------------------------------------------------------

Completed(progress) ==
  /\ Cardinality(progress.done) = ActiveLanes(progress.groups, progress.block)
  /\ progress.idleLeft = 0

\* after a lane has run: the dispatch goes on, or ends and the next queued
\* dispatch starts on the store as it is then
LaneRetired(progress, store) ==
  IF ~Completed(progress)
    THEN lanes' = progress /\ UNCHANGED gpuQueue
    ELSE IF gpuQueue = <<>>
      THEN lanes' = [progress EXCEPT !.running = FALSE] /\ UNCHANGED gpuQueue
      ELSE /\ lanes' = StartedLanes(gpuQueue[1].groups, gpuQueue[1].block, store)
           /\ gpuQueue' = Tail(gpuQueue)

\* a lane whose index is below particleCount runs main.  A dispatch whose
\* particle binding holds no whole element is rejected by the validation of
\* the device: its lanes have no effect
KernelLane(index, robust) ==
  /\ lanes.running
  /\ index < ActiveLanes(lanes.groups, lanes.block)
  /\ index \notin lanes.done
  /\ particles' = IF arrayLength(particles) = 0
                    THEN particles
                    ELSE main(index, particles, lanes.block, robust)
  /\ LaneRetired([lanes EXCEPT !.done = @ \cup {index}], particles')
  /\ UNCHANGED <<cps, paramsGpu, call, hist>>

\* main run for the lanes from..to, one after the other: each lane runs on
\* the store the lane before it has left
RECURSIVE RunLanes(_, _, _, _, _)
RunLanes(from, to, store, block, robust) ==
  IF from > to THEN store
  ELSE LET next == main(from, store, block, robust)
       IN IF next = store
            THEN RunLanes(from + 1, to, store, block, robust)
            ELSE RunLanes(from + 1, to, next, block, robust)

\* the lanes past particleCount run main.  They are run together, at any
\* point of the dispatch: the indices are those from the number of active
\* lanes up to the last lane of the last workgroup
KernelLanesOutOfRange(robust) ==
  /\ lanes.running
  /\ lanes.idleLeft > 0
  /\ particles' = RunLanes(ActiveLanes(lanes.groups, lanes.block),
                           LaneCount(lanes.groups) - 1, particles, lanes.block, robust)
  /\ LaneRetired([lanes EXCEPT !.idleLeft = 0], particles')
  /\ UNCHANGED <<cps, paramsGpu, call, hist>>

\* ------------------------------------------------------------------------
\* AppEngine: the rendering backend
\* ------------------------------------------------------------------------

\* outcomes of `await WebGPUEngine.IsSupportedAsync`
ProbeOutcomes == {"supported", "unsupported", "throws"}

\* outcomes of creating an engine
EngineOutcomes == {"ok", "fails"}

\* a new AppEngine: engine = null, isWebGPU = false.  returned is the value
\* initialize() resolved with ("none" before, "threw" when it rejected)
NoAppEngine ==
  [engine |-> "null", isWebGPU |-> FALSE, returned |-> "none", pc |-> "idle",
   webgpuAttempts |-> 0, webgl2Attempts |-> 0]

\* initializeWebGPU() without the assignment to this.isWebGPU
WebGPUEngineReady_FlagNotSet(ae) ==
  [ae EXCEPT !.engine = "WebGPU", !.returned = "true", !.pc = "done",
             !.webgpuAttempts = @ + 1]

\* initializeWebGPU() when initAsync() has resolved
WebGPUEngineReady(ae) ==
  [ae EXCEPT !.engine = "WebGPU", !.isWebGPU = TRUE, !.returned = "true", !.pc = "done",
             !.webgpuAttempts = @ + 1]

\* initializeWebGPU() when the engine's constructor or initAsync() threw:
\* the state its catch block starts from
WebGPUEngineFailed(ae) == [ae EXCEPT !.webgpuAttempts = @ + 1]

\* initializeWebGL2(): the fallback, which throws when no engine can be made
initializeWebGL2(ae, outcome) ==
  IF outcome = "ok"
    THEN [ae EXCEPT !.engine = "WebGL2", !.isWebGPU = FALSE, !.returned = "false",
                    !.pc = "done", !.webgl2Attempts = @ + 1]
    ELSE [ae EXCEPT !.returned = "threw", !.pc = "done", !.webgl2Attempts = @ + 1]

\* the catch block of initialize(), for an exception thrown inside its try
\* block: `return await this.initializeWebGPU()` and
\* `return this.initializeWebGL2()` are both inside the try, so a throw of
\* initializeWebGL2() on either path lands here and initializeWebGL2() is
\* called again; a throw of this second call leaves initialize()
CatchOfInitialize(ae, outcome) ==
  IF ae.returned = "threw" THEN initializeWebGL2(ae, outcome) ELSE ae

\* isUsingWebGPU()
isUsingWebGPU == appEngine.isWebGPU

\* getEngine() (throws when the engine is null; init() calls it after a
\* successful initialize() only)
getEngine == appEngine.engine

\* init() without its try/catch: the exception leaves init(), whose
\* promise rejects, and the loading status keeps its text
CatchOfInit_Rethrows(a) == [a EXCEPT !.pc = "failed", !.initResult = "rejected"]

\* the catch block of Application.init(): the error is logged and written
\* to the loading status, and init() returns
CatchOfInit(a) == [a EXCEPT !.pc = "failed", !.status = "error", !.initResult = "resolved"]

\* the continuation of Application.init() after `await engine.initialize()`:
\* the loading status names the backend; the catch block ends init() when
\* initialize() rejected
AfterEngine(ae) ==
  IF ae.returned = "threw"
    THEN CatchOfInit([app EXCEPT !.lastEvent = "engine"])
    ELSE [app EXCEPT !.pc = "engineReady", !.lastEvent = "engine",
                     !.status = IF ae.returned = "true" THEN "webgpu" ELSE "fallback"]

\* Application.init() up to its first await: new AppEngine, initialize()
\* called, which waits for the support probe
Application_init ==
  /\ app.pc = "start"
  /\ appEngine.pc = "idle"
  /\ appEngine' = [appEngine EXCEPT !.pc = "probe"]
  /\ app' = [app EXCEPT !.pc = "engine", !.lastEvent = "init", !.status = "checking"]
  /\ UNCHANGED <<sceneManager, waterfall, cyberpunk>>
  /\ UNCHANGED orchVars

\* AppEngine.initialize() after the probe: starts the WebGPU engine, or
\* falls back to WebGL2 when the probe says no (inside the try block) or
\* throws (inside the catch block)
AppEngine_initialize(probe, gl, again) ==
  /\ appEngine.pc = "probe"
  /\ IF probe = "supported"
       THEN /\ appEngine' = [appEngine EXCEPT !.pc = "initializeWebGPU"]
            /\ UNCHANGED app
       ELSE /\ appEngine' = IF probe = "unsupported"
                              THEN CatchOfInitialize(initializeWebGL2(appEngine, gl), again)
                              ELSE initializeWebGL2(appEngine, gl)
            /\ app' = AfterEngine(appEngine')
  /\ UNCHANGED <<sceneManager, waterfall, cyberpunk>>
  /\ UNCHANGED orchVars

\* AppEngine.initializeWebGPU() after `await engine.initAsync()`
AppEngine_initializeWebGPU(gpu, gl, again) ==
  /\ appEngine.pc = "initializeWebGPU"
  /\ appEngine' =
       IF gpu = "ok"
         THEN WebGPUEngineReady(appEngine)
         ELSE CatchOfInitialize(initializeWebGL2(WebGPUEngineFailed(appEngine), gl), again)
  /\ app' = AfterEngine(appEngine')
  /\ UNCHANGED <<sceneManager, waterfall, cyberpunk>>
  /\ UNCHANGED orchVars

\* ------------------------------------------------------------------------
\* Scenes
\* ------------------------------------------------------------------------

\* the two WaterfallScene sources of the repository: the compute-shader
\* scene and the scene built on the library's ParticleSystem
WaterfallVariants == {"compute", "simple"}

\* capacity of the library particle system of the simple scene
ParticleSystemCapacity == 5000

NoParticleSystem ==
  [exists |-> FALSE, capacity |-> 0, started |-> FALSE, disposed |-> FALSE,
   disposeCalls |-> 0]

\* a WaterfallScene that has not been constructed.  Two fields record the
\* order of the calls on the object: initialized (initialize() has completed
\* and dispose() has not been called since) and initializeAfterDispose
\* (initialize() has been called after dispose())
NoWaterfall(variant) ==
  [variant |-> variant, constructed |-> FALSE, engine |-> "null", isWebGPU |-> FALSE,
   computeParticles |-> FALSE, placeholder |-> FALSE, particleSystem |-> NoParticleSystem,
   initializeCalls |-> 0, sceneDisposed |-> FALSE, sceneDisposeCalls |-> 0,
   constructorThrew |-> FALSE, initialized |-> FALSE, initializeAfterDispose |-> FALSE]

\* WaterfallScene constructor (the simple scene ignores _isWebGPU)
WaterfallScene_constructor(w, engine, isWebGPU) ==
  [w EXCEPT !.constructed = TRUE, !.engine = engine,
            !.isWebGPU = IF w.variant = "compute" THEN isWebGPU ELSE FALSE]

\* initialize() of the compute scene taking the compute branch on any engine
UsesCompute_Always(w) == w.variant = "compute"

\* the test of initialize(): `if (this.isWebGPU)`, compute scene only
UsesCompute(w) == w.variant = "compute" /\ w.isWebGPU

\* whether initialize() rejects: the orchestrator's constructor or its
\* initialize() threw
WaterfallScene_initializeThrows(w, failAt) ==
  UsesCompute(w) /\ (ConstructorThrows(w.engine) \/ failAt # "none")

\* createParticleSystem() of the simple scene
createParticleSystem ==
  [exists |-> TRUE, capacity |-> ParticleSystemCapacity, started |-> TRUE, disposed |-> FALSE,
   disposeCalls |-> 0]

\* the scene's fields after initialize(); failAt is the step at which the
\* orchestrator's initialize() throws
WaterfallScene_initialize(w, failAt) ==
  LET called == [w EXCEPT !.initializeCalls = @ + 1,
                          !.initializeAfterDispose = @ \/ w.sceneDisposed,
                          !.initialized = @ \/ ~WaterfallScene_initializeThrows(w, failAt)]
  IN IF w.variant = "simple"
       THEN [called EXCEPT !.particleSystem = createParticleSystem]
       ELSE IF UsesCompute(w)
              THEN IF ConstructorThrows(w.engine)
                     THEN [called EXCEPT !.constructorThrew = TRUE]
                     ELSE [called EXCEPT !.computeParticles = TRUE]
              ELSE [called EXCEPT !.placeholder = TRUE]

\* initializeComputeParticles(): a new orchestrator of 50000 particles
\* replaces the scene's reference, and its initialize() runs
WaterfallScene_initializeComputeParticles(failAt, seed) ==
  LET sys == InitializedFields(ConstructedSystem(DefaultParticleCount), failAt)
  IN /\ cps' = sys
     /\ particles' = IF sys.particleBuffer = "live"
                       THEN UploadedStore(seed, DefaultParticleCount)
                       ELSE particles
     /\ paramsGpu' = updateParamsBuffer(sys, paramsGpu)
     /\ call' = [op |-> "initialize", outcome |-> IF failAt = "none" THEN "ok" ELSE "error",
                 events |-> IF failAt \in {"particleBuffer", "paramsBuffer"}
                              THEN <<>> ELSE <<"params.update">>,
                 dt |-> 0, groups |-> 0, wasInitialized |-> FALSE, wasDisposed |-> FALSE]
     /\ hist' = [NoHist EXCEPT !.initAttempted = TRUE, !.initialized = (failAt = "none"),
                               !.calls = 2, !.requested = DefaultParticleCount]
     /\ UNCHANGED <<gpuQueue, lanes>>

\* the scene's fields after dispose()
WaterfallScene_dispose(w) ==
  [w EXCEPT !.particleSystem.disposed = w.particleSystem.exists,
            !.particleSystem.disposeCalls = IF w.particleSystem.exists THEN @ + 1 ELSE @,
            !.sceneDisposed = TRUE, !.sceneDisposeCalls = @ + 1, !.initialized = FALSE]

\* update(deltaTime): steps the orchestrator when there is one
WaterfallScene_update(deltaTime, rejects) ==
  IF waterfall.computeParticles
    THEN ComputeParticleSystem_update(deltaTime, rejects)
    ELSE UNCHANGED orchVars

NoCyberpunk ==
  [constructed |-> FALSE, initializeCalls |-> 0, sceneDisposed |-> FALSE,
   sceneDisposeCalls |-> 0, initialized |-> FALSE, initializeAfterDispose |-> FALSE]

\* CyberpunkCityScene constructor (_isWebGPU is ignored)
CyberpunkCityScene_constructor(c, isWebGPU) == [c EXCEPT !.constructed = TRUE]

CyberpunkCityScene_initialize(c) ==
  [c EXCEPT !.initializeCalls = @ + 1, !.initialized = TRUE,
            !.initializeAfterDispose = @ \/ c.sceneDisposed]

CyberpunkCityScene_dispose(c) ==
  [c EXCEPT !.sceneDisposed = TRUE, !.sceneDisposeCalls = @ + 1, !.initialized = FALSE]

\* ------------------------------------------------------------------------
\* SceneManager and the Application
\* ------------------------------------------------------------------------

\* key presses handled in one behaviour
MaxSwitches == 2

\* frames rendered in one behaviour
MaxFrames == 3

SceneNames == {"waterfall", "cyberpunk"}

\* frame times of the render loop, in ms
FrameTimes == {16, 40}

\* what can fail inside the orchestrator's initialize() when a scene runs it
SceneInitFailures == {"none", "computeShader"}

\* a new SceneManager.  pending holds the switchScene() calls suspended at
\* `await newScene.initialize()`, oldest first; requested is the scene the
\* last call asked for and overlapped whether a call was made while an
\* earlier one was suspended
NoSceneManager ==
  [registered |-> FALSE, currentScene |-> "null", controls |-> FALSE, switches |-> 0,
   pending |-> <<>>, requested |-> "null", overlapped |-> FALSE]

\* the Application before init().  status is the text of the loading
\* status element, initResult how the promise of init() has settled
NoApplication ==
  [pc |-> "start", frames |-> 0, renderScene |-> "null", hostUpdated |-> FALSE,
   lastEvent |-> "none", status |-> "none", initResult |-> "pending"]

\* the scenes w and c after switchScene(sceneName) has reached its await
\* with current scene current: the current scene is disposed and
\* initialize() of the new one has run
SwitchedWaterfall(w, current, sceneName, failAt) ==
  LET disposed == IF current = "waterfall" THEN WaterfallScene_dispose(w) ELSE w
  IN IF sceneName = "waterfall" THEN WaterfallScene_initialize(disposed, failAt) ELSE disposed

SwitchedCyberpunk(c, current, sceneName) ==
  LET disposed == IF current = "cyberpunk" THEN CyberpunkCityScene_dispose(c) ELSE c
  IN IF sceneName = "cyberpunk" THEN CyberpunkCityScene_initialize(disposed) ELSE disposed

SwitchThrows(w, sceneName, failAt) ==
  sceneName = "waterfall" /\ WaterfallScene_initializeThrows(w, failAt)

SwitchedOrchestrator(w, current, sceneName, failAt, seed) ==
  IF sceneName = "waterfall" /\ UsesCompute(w)
    THEN IF ConstructorThrows(w.engine)
           THEN /\ call' = CallRecord("constructor", "error", <<>>, 0)
                /\ UNCHANGED <<cps, paramsGpu, particles, gpuQueue, lanes, hist>>
           ELSE WaterfallScene_initializeComputeParticles(failAt, seed)
    ELSE IF current = "waterfall" /\ w.computeParticles
           THEN ComputeParticleSystem_dispose
           ELSE UNCHANGED orchVars

\* switchScene(sceneName) up to its await: the scene that is current at the
\* call is disposed and initialize() of the new scene runs
SwitchStarted(sceneName, failAt, seed) ==
  /\ waterfall' = SwitchedWaterfall(waterfall, sceneManager.currentScene, sceneName, failAt)
  /\ cyberpunk' = SwitchedCyberpunk(cyberpunk, sceneManager.currentScene, sceneName)
  /\ SwitchedOrchestrator(waterfall, sceneManager.currentScene, sceneName, failAt, seed)

\* switchScene(sceneName) after its await: the new scene becomes current;
\* a rejection of initialize() leaves the call before the assignment
SwitchResumed(sm, sceneName, threw) ==
  [sm EXCEPT !.currentScene = IF threw THEN @ ELSE sceneName]

\* the SceneManager after a call of switchScene(sceneName) was made
SwitchRequested(sm, sceneName) ==
  [sm EXCEPT !.switches = @ + 1, !.requested = sceneName,
             !.overlapped = @ \/ sm.pending # <<>>]

\* switchScene(sceneName) from the call to the end of its continuation.
\* Every await inside the scenes' initialize() settles without leaving the
\* task, so a call made by a task of its own (a key press) is one step.
\* (scenes.get() finds no scene once dispose() has cleared the map: the
\* call logs and returns)
SceneManager_switchScene(sceneName, failAt, seed) ==
  IF ~sceneManager.registered
    THEN /\ sceneManager' = [sceneManager EXCEPT !.switches = @ + 1]
         /\ UNCHANGED <<waterfall, cyberpunk>>
         /\ UNCHANGED orchVars
    ELSE /\ SwitchStarted(sceneName, failAt, seed)
         /\ sceneManager' = SwitchResumed(SwitchRequested(sceneManager, sceneName), sceneName,
                                          SwitchThrows(waterfall, sceneName, failAt))

\* SceneManager.dispose(): dispose() of every registered scene, whether or
\* not a switch has disposed it before; the map is cleared and currentScene
\* set to null.  The keydown listener stays attached.
SceneManager_dispose ==
  /\ sceneManager.registered
  /\ waterfall' = WaterfallScene_dispose(waterfall)
  /\ cyberpunk' = CyberpunkCityScene_dispose(cyberpunk)
  /\ IF waterfall.computeParticles
       THEN ComputeParticleSystem_dispose
       ELSE UNCHANGED orchVars
  /\ sceneManager' = [sceneManager EXCEPT !.registered = FALSE, !.currentScene = "null"]
  /\ app' = [app EXCEPT !.lastEvent = "dispose"]
  /\ UNCHANGED appEngine

\* SceneManager.initialize() and the rest of Application.init(): the scenes
\* are constructed with the engine and its flag, the waterfall scene is
\* switched to, the controls are set up and the render loop started on the
\* current scene; a rejection ends init() in its catch block
SceneManager_initialize(failAt, seed) ==
  /\ app.pc = "engineReady"
  /\ LET w == WaterfallScene_constructor(waterfall, getEngine, isUsingWebGPU)
         c == CyberpunkCityScene_constructor(cyberpunk, isUsingWebGPU)
         threw == SwitchThrows(w, "waterfall", failAt)
     IN /\ waterfall' = SwitchedWaterfall(w, "null", "waterfall", failAt)
        /\ cyberpunk' = SwitchedCyberpunk(c, "null", "waterfall")
        /\ SwitchedOrchestrator(w, "null", "waterfall", failAt, seed)
        /\ sceneManager' =
             [sceneManager EXCEPT !.registered = TRUE,
                                  !.currentScene = IF threw THEN "null" ELSE "waterfall",
                                  !.requested = "waterfall",
                                  !.controls = ~threw]
        /\ app' = IF threw
                    THEN CatchOfInit([app EXCEPT !.lastEvent = "scenes"])
                    ELSE [app EXCEPT !.pc = "running", !.renderScene = "waterfall",
                                     !.lastEvent = "scenes", !.initResult = "resolved"]
  /\ UNCHANGED appEngine

\* the keydown listener: '1' and '2' switch the scene
KeyDown(sceneName, failAt, seed) ==
  /\ sceneManager.controls
  /\ sceneManager.switches < MaxSwitches
  /\ SceneManager_switchScene(sceneName, failAt, seed)
  /\ app' = [app EXCEPT !.lastEvent = "keydown"]
  /\ UNCHANGED appEngine

\* switchScene(sceneName) called by code that does not wait for the
\* promise it returns: the call runs up to its await and returns, and its
\* continuation is queued
SceneManager_switchScene_call(sceneName, failAt, seed) ==
  /\ sceneManager.registered
  /\ sceneManager.controls
  /\ sceneManager.switches < MaxSwitches
  /\ SwitchStarted(sceneName, failAt, seed)
  /\ sceneManager' =
       [SwitchRequested(sceneManager, sceneName) EXCEPT
          !.pending = Append(@, [sceneName |-> sceneName,
                                 threw |-> SwitchThrows(waterfall, sceneName, failAt)])]
  /\ app' = [app EXCEPT !.lastEvent = "switchScene"]
  /\ UNCHANGED appEngine

\* the continuation of the oldest suspended switchScene() call runs
SceneManager_switchScene_resume ==
  /\ sceneManager.pending # <<>>
  /\ sceneManager' = SwitchResumed([sceneManager EXCEPT !.pending = Tail(@)],
                                   Head(sceneManager.pending).sceneName,
                                   Head(sceneManager.pending).threw)
  /\ app' = [app EXCEPT !.lastEvent = "resumed"]
  /\ UNCHANGED <<appEngine, waterfall, cyberpunk>>
  /\ UNCHANGED orchVars

\* whether scene.render() of the render loop's scene advances a particle
\* system on the host: the library animates the started systems of the
\* scene; animates is its behaviour on a scene that has been disposed
HostParticlesAnimated(animates) ==
  /\ app.renderScene = "waterfall"
  /\ waterfall.particleSystem.exists
  /\ waterfall.particleSystem.started
  /\ ~waterfall.particleSystem.disposed
  /\ waterfall.sceneDisposed => animates

\* SceneManager.update(): forwards the frame to the current scene
SceneManager_update(deltaTime, rejects) ==
  IF sceneManager.currentScene = "waterfall"
    THEN WaterfallScene_update(deltaTime, rejects)
    ELSE UNCHANGED orchVars

\* one turn of the render loop: scene.render(), then sceneManager.update()
Frame(deltaTime, rejects, animates) ==
  /\ app.pc = "running"
  /\ app.frames < MaxFrames
  /\ app' = [app EXCEPT !.frames = @ + 1, !.hostUpdated = HostParticlesAnimated(animates),
                        !.lastEvent = "frame"]
  /\ SceneManager_update(deltaTime, rejects)
  /\ UNCHANGED <<appEngine, sceneManager, waterfall, cyberpunk>>

\* ------------------------------------------------------------------------
\* Kernel functions evaluated on chosen inputs
\* ------------------------------------------------------------------------

\* no kernel function evaluated
NoEval == [fn |-> "none"]

\* the seeds 0..MaxHashSeed are evaluated
MaxHashSeed == 149

\* seeds whose final state is at the top of the u32 range: 60418823
\* (state 2^32 - 112), 2150647986 (state 2^32 - 128), 3219751191 (state
\* 2^32 - 129) and 2222045655 (state 2^32 - 1)
HashEdgeSeeds ==
  {[h |-> 921, l |-> 60167], [h |-> 32816, l |-> 18610], [h |-> 49129, l |-> 33047],
   [h |-> 33905, l |-> 47575]}

HashSeeds == {U32(n) : n \in 0..MaxHashSeed} \cup HashEdgeSeeds

\* hash(seed) is evaluated (a behaviour evaluates one function once)
EvalHash(seed) ==
  /\ eval = NoEval
  /\ eval' = [fn |-> "hash", seed |-> seed, state |-> HashState(seed), value |-> hash(seed)]
  /\ UNCHANGED orchVars
  /\ UNCHANGED appVars

\* the lanes 0..MaxRespawnIndex are evaluated on a dead particle
MaxRespawnIndex == 99

\* lane indices at which one of the three random numbers is exactly 1
RespawnEdgeIndices == {60418821, 60418822, 60418823}

RespawnIndices == (0..MaxRespawnIndex) \cup RespawnEdgeIndices

\* the values update() can upload as deltaTime, in ms
ClampedDeltaTimes == 0..MaxDeltaTime

\* a particle that enters the step with life = 0
DeadParticle == [position |-> <<0, 0, 0>>, velocity |-> <<0, 0, 0>>, life |-> 0, size |-> 0]

\* the smallest uploaded store that holds element index, with p in it
StoreWith(index, p) ==
  [uploaded |-> TRUE, seed |-> 1, count |-> (3 * (index + 1) + 1) \div 2,
   slots |-> (index :> p)]

\* the parameter block of a step of deltaTime on a store of count particles
BlockOf(deltaTime, count) ==
  [written |-> TRUE, deltaTime |-> deltaTime, particleCount |-> count]

\* main is run for lane index on a particle with life = 0
EvalRespawn(index, deltaTime) ==
  /\ eval = NoEval
  /\ LET store == StoreWith(index, DeadParticle)
         after == main(index, store, BlockOf(deltaTime, index + 1), "clamp")
     IN eval' = [fn |-> "respawn", index |-> index, deltaTime |-> deltaTime,
                 before |-> ParticleAt(store, index), after |-> ParticleAt(after, index)]
  /\ UNCHANGED orchVars
  /\ UNCHANGED appVars

\* the obstacles whose sphere contains pos (those the collision test fires on)
InsideObstacles(pos) ==
  {k \in 1..Len(Obstacles) :
     ShorterThan(VSub(pos, Obstacles[k].position), Obstacles[k].radius)}

\* the normal the collision test uses for obstacle k
NormalOf(k, pos) == Normalize(VSub(pos, Obstacles[k].position))

\* the last obstacle of the array that contains pos
LastObstacle(pos) == CHOOSE k \in InsideObstacles(pos) : \A j \in InsideObstacles(pos) : j <= k

\* offsets from an obstacle's centre, all of length 0.5 (inside every
\* obstacle) and with a normal that the fixed point represents exactly
CentreOffsets ==
  {<<500, 0, 0>>, <<0 - 500, 0, 0>>, <<0, 500, 0>>, <<0, 0 - 500, 0>>, <<0, 0, 500>>,
   <<300, 400, 0>>, <<0, 0 - 300, 400>>, <<0 - 400, 0, 300>>}

\* a point inside obstacle 2 and obstacle 5, off the line of their centres
OverlapPoint == <<0 - 2411, 0 - 1448, 36>>

\* a point inside no obstacle
FreePoint == <<0, 5000, 0>>

CollisionPositions ==
  {VAdd(Obstacles[k].position, d) : k \in 1..Len(Obstacles), d \in CentreOffsets}
    \cup {OverlapPoint, FreePoint}

CollisionVelocities ==
  {<<x, y, z>> : x \in {0 - 2000, 0, 100}, y \in {0 - 2000, 0 - 100, 0, 2000},
                 z \in {0 - 100, 0, 2000}}

\* the deltaTime values of the evaluated steps, in ms
StepDeltaTimes == {0, 16, MaxDeltaTime}

\* checkObstacleCollision(pos, vel) is evaluated
EvalCollision(pos, vel) ==
  /\ eval = NoEval
  /\ eval' = [fn |-> "collision", pos |-> pos, vel |-> vel,
              returned |-> checkObstacleCollision(pos, vel)]
  /\ UNCHANGED orchVars
  /\ UNCHANGED appVars

\* main is run on a store of one alive particle at pos with velocity vel
EvalStep(pos, vel, deltaTime) ==
  /\ eval = NoEval
  /\ LET store == StoreWith(0, [position |-> pos, velocity |-> vel, life |-> 5000,
                                size |-> 50])
         after == main(0, store, BlockOf(deltaTime, 1), "clamp")
     IN eval' = [fn |-> "step", deltaTime |-> deltaTime,
                 before |-> ParticleAt(store, 0), after |-> ParticleAt(after, 0)]
  /\ UNCHANGED orchVars
  /\ UNCHANGED appVars

\* ------------------------------------------------------------------------
\* Specifications
\* ------------------------------------------------------------------------

OrchInit ==
  /\ cps = NoSystem
  /\ paramsGpu = NoParams
  /\ particles = NoParticles
  /\ gpuQueue = <<>>
  /\ lanes = NoLanes
  /\ call = NoCall
  /\ hist = NoHist

\* the application before init(), built with the given WaterfallScene
AppVarsInit(variant) ==
  /\ appEngine = NoAppEngine
  /\ sceneManager = NoSceneManager
  /\ waterfall = NoWaterfall(variant)
  /\ cyberpunk = NoCyberpunk
  /\ app = NoApplication

Init == OrchInit /\ AppVarsInit("compute") /\ eval = NoEval

\* Spec: the orchestrator under any sequence of calls of its public methods;
\* the dispatches it issues are recorded and not executed
Next ==
  \/ \E k \in EngineKinds, n \in ParticleCounts :
       ComputeParticleSystem_constructor(k, n) /\ UNCHANGED <<appVars, eval>>
  \/ \E f \in InitFailures, s \in Seeds :
       ComputeParticleSystem_initialize(f, s) /\ UNCHANGED <<appVars, eval>>
  \/ \E dt \in DeltaTimes, r \in BOOLEAN :
       ComputeParticleSystem_update(dt, r) /\ UNCHANGED <<appVars, eval>>
  \/ ComputeParticleSystem_dispose /\ UNCHANGED <<appVars, eval>>

Spec == Init /\ [][Next]_vars

\* KernelSpec: a small orchestrator driven as the frame loop drives it (one
\* update per frame, the next frame after the dispatch has completed), with
\* the lanes of each dispatch run in every order
KernelCounts == {2, 3}

\* steps of one behaviour of KernelSpec
MaxSteps == 2

KernelDeltaTimes == {0, 16, 40}

KernelNext ==
  \/ \E n \in KernelCounts :
       ComputeParticleSystem_constructor("WebGPU", n) /\ UNCHANGED <<appVars, eval>>
  \/ \E s \in Seeds : ComputeParticleSystem_initialize("none", s) /\ UNCHANGED <<appVars, eval>>
  \/ \E dt \in KernelDeltaTimes :
       /\ ~lanes.running
       /\ hist.dispatches < MaxSteps
       /\ ComputeParticleSystem_update(dt, FALSE)
       /\ UNCHANGED <<appVars, eval>>
  \/ \E i \in 0..(ActiveLanes(lanes.groups, lanes.block) - 1) :
       \E r \in OutOfBounds : KernelLane(i, r) /\ UNCHANGED <<appVars, eval>>
  \/ \E r \in OutOfBounds : KernelLanesOutOfRange(r) /\ UNCHANGED <<appVars, eval>>

KernelSpec == Init /\ [][KernelNext]_vars

\* AppSpec: the application from init() on, with either WaterfallScene;
\* the dispatches are recorded and not executed
AppInit == OrchInit /\ (\E v \in WaterfallVariants : AppVarsInit(v)) /\ eval = NoEval

AppNext ==
  \/ Application_init /\ UNCHANGED eval
  \/ \E p \in ProbeOutcomes, gl \in EngineOutcomes, again \in EngineOutcomes :
       AppEngine_initialize(p, gl, again) /\ UNCHANGED eval
  \/ \E gpu \in EngineOutcomes, gl \in EngineOutcomes, again \in EngineOutcomes :
       AppEngine_initializeWebGPU(gpu, gl, again) /\ UNCHANGED eval
  \/ \E f \in SceneInitFailures, s \in Seeds :
       SceneManager_initialize(f, s) /\ UNCHANGED eval
  \/ \E n \in SceneNames, f \in SceneInitFailures, s \in Seeds :
       KeyDown(n, f, s) /\ UNCHANGED eval
  \/ \E dt \in FrameTimes, r \in BOOLEAN, a \in BOOLEAN :
       Frame(dt, r, a) /\ UNCHANGED eval
  \/ SceneManager_dispose /\ UNCHANGED eval

AppSpec == AppInit /\ [][AppNext]_vars

\* SceneSpec: the application built with the WaterfallScene of
\* src/scenes, with switchScene() as its callers see it: a call returns at
\* `await newScene.initialize()` and its continuation runs later, in the
\* order of the calls (initialize() of these scenes has no await of its
\* own).  Code that calls switchScene() again without waiting for the
\* promise makes the second call while the first is suspended.  A frame is
\* a task of its own and runs when no continuation is pending.
SceneInit == OrchInit /\ AppVarsInit("simple") /\ eval = NoEval

SceneNext ==
  \/ Application_init /\ UNCHANGED eval
  \/ \E p \in ProbeOutcomes, gl \in EngineOutcomes, again \in EngineOutcomes :
       AppEngine_initialize(p, gl, again) /\ UNCHANGED eval
  \/ \E gpu \in EngineOutcomes, gl \in EngineOutcomes, again \in EngineOutcomes :
       AppEngine_initializeWebGPU(gpu, gl, again) /\ UNCHANGED eval
  \/ SceneManager_initialize("none", 1) /\ UNCHANGED eval
  \/ \E n \in SceneNames : SceneManager_switchScene_call(n, "none", 1) /\ UNCHANGED eval
  \/ SceneManager_switchScene_resume /\ UNCHANGED eval
  \/ \E dt \in FrameTimes, r \in BOOLEAN, a \in BOOLEAN :
       sceneManager.pending = <<>> /\ Frame(dt, r, a) /\ UNCHANGED eval

SceneSpec == SceneInit /\ [][SceneNext]_vars

\* FunctionSpec: the kernel's functions applied to inputs drawn from sets
FunctionNext ==
  \/ \E seed \in HashSeeds : EvalHash(seed)
  \/ \E i \in RespawnIndices, dt \in ClampedDeltaTimes : EvalRespawn(i, dt)
  \/ \E pos \in CollisionPositions, vel \in CollisionVelocities : EvalCollision(pos, vel)
  \/ \E pos \in CollisionPositions, vel \in CollisionVelocities, dt \in StepDeltaTimes :
       EvalStep(pos, vel, dt)

FunctionSpec == Init /\ [][FunctionNext]_vars

\* ------------------------------------------------------------------------
\* Claims about the orchestrator (specification Spec)
\* ------------------------------------------------------------------------

\* the last call was update() on an instance whose initialize() had
\* completed and whose dispose() had not been called
SteppedInitialized ==
  call.op = "update" /\ call.wasInitialized /\ ~call.wasDisposed

Dispatched(events) == \E k \in DOMAIN events : events[k] = "dispatch"

\* C1: an update() before initialize() has completed successfully reports an
\* error; it never returns without doing anything.
C1_UpdateBeforeInitializeReportsError ==
  (call.op = "update" /\ ~call.wasInitialized) => call.outcome = "error"

\* C2: after dispose(), every update() reports an error and issues no
\* dispatch against the released buffers or the released kernel program.
C2_UpdateAfterDisposeFailsCleanly ==
  (call.op = "update" /\ call.wasDisposed) =>
     (call.outcome = "error" /\ ~Dispatched(call.events))

\* C3: getParticleCount() is the count given to the constructor in every
\* state of the instance's lifetime, and every particleCount uploaded in the
\* parameter block (the block itself, and the block each dispatch ran with)
\* equals it.
C3_ParticleCountConstant ==
  cps.exists =>
    /\ getParticleCount = hist.requested
    /\ paramsGpu.written => paramsGpu.particleCount = getParticleCount
    /\ \A k \in DOMAIN gpuQueue : gpuQueue[k].block.particleCount = getParticleCount
    /\ lanes.running => lanes.block.particleCount = getParticleCount

C3_Witness ==
  /\ hist.initialized /\ hist.disposed
  /\ getParticleCount = DefaultParticleCount
  /\ paramsGpu.written /\ paramsGpu.deltaTime = MaxDeltaTime
  /\ hist.dispatches > 0

\* the parameter block of the dispatch issued last
LastDispatchBlock ==
  IF gpuQueue # <<>> THEN gpuQueue[Len(gpuQueue)].block ELSE lanes.block

LastDispatchGroups ==
  IF gpuQueue # <<>> THEN gpuQueue[Len(gpuQueue)].groups ELSE lanes.groups

\* C4: for every update(dt) on an initialized orchestrator the deltaTime in
\* the parameter block written before the dispatch, which the dispatch runs
\* with, is min(dt, 0.033 s), so it is never above 0.033 s.
C4_DeltaTimeClamped ==
  SteppedInitialized =>
    /\ Dispatched(call.events)
    /\ LastDispatchBlock.deltaTime = (IF call.dt <= MaxDeltaTime THEN call.dt ELSE MaxDeltaTime)
    /\ LastDispatchBlock.deltaTime <= MaxDeltaTime
    /\ LastDispatchBlock = paramsGpu

C4_Witness ==
  SteppedInitialized /\ call.dt > MaxDeltaTime /\ LastDispatchBlock.deltaTime = MaxDeltaTime

\* C5: each update() on an initialized orchestrator refreshes the parameter
\* block and then issues exactly one dispatch, of ceil(particleCount / 64)
\* groups: the lanes cover [0, particleCount) and overshoot it by fewer than
\* 64.
C5_OneDispatchPerStep ==
  [][ (call'.op = "update" /\ hist'.calls = hist.calls + 1
         /\ hist.initialized /\ ~hist.disposed)
      => /\ call'.events = <<"params.update", "dispatch">>
         /\ hist'.dispatches = hist.dispatches + 1
         /\ Len(gpuQueue') + (IF lanes'.running THEN 1 ELSE 0)
              = Len(gpuQueue) + (IF lanes.running THEN 1 ELSE 0) + 1
         /\ LET n == cps.particleCount
                g == call'.groups
            IN /\ LastDispatchGroups' = g
               /\ LastDispatchBlock' = paramsGpu'
               /\ paramsGpu'.deltaTime = cps'.params.deltaTime
               /\ LaneCount(g) >= n
               /\ LaneCount(g) - n < 64
               /\ g * 64 = LaneCount(g) ]_vars

C5_Witness ==
  /\ SteppedInitialized
  /\ cps.particleCount = 65
  /\ hist.dispatches = 2
  /\ LastDispatchGroups = 2
  /\ Len(gpuQueue) = 1
  /\ lanes.running
\* ------------------------------------------------------------------------
\* Claims about the kernel (specification KernelSpec)
\* ------------------------------------------------------------------------

\* a dispatch has run to completion and none is running: lanes.pre is the
\* store the step started on, particles the store it left
StepDone == ~lanes.running /\ lanes.groups > 0

Slots == 0..(lanes.block.particleCount - 1)

\* particles[i] read under robust before the step and after it
Before(i, robust) == ParticleRead(lanes.pre, i, robust)

After(i, robust) == ParticleRead(particles, i, robust)

\* C6: a particle that enters a step with life <= 0 has life > 0 after the
\* step, and each coordinate of its position is within emitterRadius of the
\* same coordinate of emitterPosition.  The particles are those of index
\* below particleCount, each read as the device reads particles[i].
C6_RespawnProperty ==
  StepDone =>
    \A i \in Slots, r \in OutOfBounds :
      Before(i, r).life <= 0 =>
        /\ After(i, r).life > 0
        /\ \A k \in 1..3 : Abs(After(i, r).position[k] - EmitterPosition[k]) <= EmitterRadius

\* C7 as claimed: step(0) leaves the life and the position of every
\* particle unchanged, the particles with life <= 0 included.
C7_ZeroStepLeavesAllUnchanged ==
  (StepDone /\ lanes.block.deltaTime = 0) =>
    \A i \in Slots, r \in OutOfBounds :
      /\ After(i, r).life = Before(i, r).life
      /\ After(i, r).position = Before(i, r).position

\* C7 as amended: step(0) leaves the life and the position of every
\* particle that enters the step with life > 0 unchanged.
C7_ZeroStepLeavesAliveUnchanged ==
  (StepDone /\ lanes.block.deltaTime = 0) =>
    \A i \in Slots, r \in OutOfBounds :
      Before(i, r).life > 0 =>
        /\ After(i, r).life = Before(i, r).life
        /\ After(i, r).position = Before(i, r).position

\* a zero step ran on a particle that had moved in an earlier step, and
\* changed its velocity
C7_Witness ==
  /\ StepDone /\ lanes.block.deltaTime = 0
  /\ \E i \in Slots :
       /\ i \in DOMAIN lanes.pre.slots
       /\ Before(i, "clamp").life > 0
       /\ After(i, "clamp").velocity # Before(i, "clamp").velocity
       /\ After(i, "clamp").position = Before(i, "clamp").position

\* ------------------------------------------------------------------------
\* Claims about the application (specification AppSpec)
\* ------------------------------------------------------------------------

\* initialize() has resolved with a value
BackendDecided == appEngine.returned \in {"true", "false"}

\* C8: the backend is decided once, at startup: the value initialize()
\* returned is what isUsingWebGPU() reports afterwards, and neither it nor
\* the engine changes in any later step (scene switches, frames).
C8_BackendDecidedOnce ==
  /\ [](BackendDecided => (isUsingWebGPU <=> appEngine.returned = "true"))
  /\ [][BackendDecided => appEngine' = appEngine]_vars

\* WebGPU was chosen, and the scene has been switched and frames have run
C8_Witness ==
  /\ appEngine.returned = "true" /\ isUsingWebGPU
  /\ sceneManager.currentScene = "cyberpunk"
  /\ app.frames > 1

\* C9: on the WebGL2 fallback the waterfall scene runs a host particle
\* system of at most 5000 particles, and each frame updates its particles
\* on the host.
C9_FallbackRunsHostParticles ==
  (app.lastEvent = "frame" /\ ~isUsingWebGPU /\ sceneManager.currentScene = "waterfall") =>
    /\ waterfall.particleSystem.exists
    /\ waterfall.particleSystem.capacity <= 5000
    /\ app.hostUpdated

\* C10: the orchestrator's constructor throws on every engine that is not
\* WebGPU, and the scene constructs the orchestrator only on a WebGPU
\* engine: no construction by the scene ever throws.
C10_OrchestratorOnlyOnWebGPU ==
  /\ \A k \in EngineKinds : k # "WebGPU" => ConstructorThrows(k)
  /\ ~waterfall.constructorThrew
  /\ call.op = "constructor" => call.outcome # "error"
  /\ (waterfall.computeParticles \/ cps.exists) =>
       (waterfall.engine = "WebGPU" /\ getEngine = "WebGPU")

\* the scene has built its orchestrator on WebGPU for the second time and
\* a frame has stepped it
C10_Witness ==
  /\ waterfall.computeParticles /\ cps.exists
  /\ waterfall.engine = "WebGPU"
  /\ waterfall.initializeCalls = 2
  /\ app.lastEvent = "frame"
  /\ hist.dispatches > 0

\* ------------------------------------------------------------------------
\* Claims about failed initialisation (specification Spec)
\* ------------------------------------------------------------------------

\* initialize() has been called and rejected, and dispose() has not run
InitializeFailed == hist.initAttempted /\ ~hist.initialized /\ ~hist.disposed

\* C11: after an initialize() that failed part-way the instance holds no
\* GPU buffer, getParticleBuffer() gives none, and an update() reports an
\* error instead of dispatching or returning silently.
C11_FailedInitializeLeavesNothing ==
  InitializeFailed =>
    /\ call.op = "initialize" => call.outcome = "error"
    /\ getParticleBuffer = "null"
    /\ cps.paramsBuffer = "null" /\ cps.obstacleBuffer = "null"
    /\ call.op = "update" => call.outcome = "error"

\* ------------------------------------------------------------------------
\* Claims about disposal in the application (specification AppSpec)
\* ------------------------------------------------------------------------

\* C12: over scene switches followed by SceneManager.dispose(), dispose()
\* runs at most once on an orchestrator instance, on a scene's Scene object
\* and on a scene's particle system.
C12_DisposedAtMostOnce ==
  /\ hist.disposeCalls <= 1
  /\ waterfall.sceneDisposeCalls <= 1
  /\ waterfall.particleSystem.disposeCalls <= 1
  /\ cyberpunk.sceneDisposeCalls <= 1

\* C13: one AppEngine.initialize() attempts the creation of the WebGPU
\* engine at most once and the creation of the WebGL2 engine at most once,
\* also when both fail.
C13_NoRetryAtStartup ==
  /\ appEngine.webgpuAttempts <= 1
  /\ appEngine.webgl2Attempts <= 1

\* ------------------------------------------------------------------------
\* Claims about the kernel's functions (specification FunctionSpec)
\* ------------------------------------------------------------------------

\* the final state of hash is 2^32 - 128 or more: f32(state) is 2^32
RoundsToOne(state) == state.h = 65535 /\ state.l >= 65408

\* C14 as claimed: hash(seed) is in [0, 1) for every u32 seed; it is never
\* exactly 1.
C14_HashBelowOne ==
  eval.fn = "hash" => (eval.value >= 0 /\ eval.value < 1000)

\* C14 as amended: hash(seed) is in the closed interval [0, 1] for every u32
\* seed, and it is exactly 1 for the seeds whose final state is 2^32 - 128
\* or more, and for no other seed.
C14_HashAtMostOne ==
  eval.fn = "hash" =>
    /\ eval.value >= 0 /\ eval.value <= 1000
    /\ eval.value = 1000 <=> RoundsToOne(eval.state)

\* hash(60418823) has been evaluated and is exactly 1
C14_Witness ==
  /\ eval.fn = "hash"
  /\ eval.seed = [h |-> 921, l |-> 60167]
  /\ eval.value = 1000

Along(k, pos, v) == Dot(NormalOf(k, pos), v)

C17_NormalSpeedLostEveryObstacle ==
  eval.fn = "collision" =>
    \A k \in InsideObstacles(eval.pos) :
      Abs(Along(k, eval.pos, eval.returned))
        <= FMul(600, Abs(Along(k, eval.pos, eval.vel))) + 5

\* C17 as amended: the bound holds along the normal of the last obstacle
\* of the array that contains the particle (up to 0.005 m/s, the
\* resolution of the arithmetic), and the velocity is returned unchanged
\* when no obstacle contains it.
C17_NormalSpeedLostLastObstacle ==
  eval.fn = "collision" =>
    IF InsideObstacles(eval.pos) = {}
      THEN eval.returned = eval.vel
      ELSE LET k == LastObstacle(eval.pos)
           IN Abs(Along(k, eval.pos, eval.returned))
                <= FMul(600, Abs(Along(k, eval.pos, eval.vel))) + 5

\* a particle inside obstacle 2 and obstacle 5 came out of the test with
\* the velocity reflected about the normal of obstacle 5
C17_Witness ==
  /\ eval.fn = "collision"
  /\ eval.pos = OverlapPoint
  /\ InsideObstacles(eval.pos) = {2, 5}
  /\ eval.vel = <<0 - 2000, 2000, 0>>
  /\ eval.returned = VScale(Reflect(eval.vel, NormalOf(5, eval.pos)), 600)
  /\ eval.returned # eval.vel

\* initialize() has just returned without an error
JustInitialized == call.op = "initialize" /\ call.outcome = "ok"

\* C18 as claimed: immediately after initialize(), every particle of the
\* store is within emitterRadius / 2 of emitterPosition in each coordinate,
\* with velocity y in [-3, -1], life in [5, 8] and size in [0.05, 0.1].
\* The particles are the records the host has uploaded.
C18_InitialParticlesAsRespawned ==
  JustInitialized =>
    \A i \in 0..(particles.count - 1) :
      LET p == UploadedParticle(particles.seed, i)
      IN /\ \A k \in 1..3 : Abs(p.position[k] - EmitterPosition[k]) <= EmitterRadius \div 2
         /\ p.velocity[2] >= 0 - 3000 /\ p.velocity[2] <= 0 - 1000
         /\ p.life >= 5000 /\ p.life <= 8000
         /\ p.size >= 50 /\ p.size <= 100

\* C18 as amended: immediately after initialize(), every record the host
\* has uploaded has x and z within 1 of the emitter, y in [10, 12],
\* velocity x and z in [-1, 1], velocity y in [-3, -1], life in [0, 5] and
\* size in [0.05, 0.1].
C18_InitialParticlesInHostRanges ==
  JustInitialized =>
    \A i \in 0..(particles.count - 1) :
      LET p == UploadedParticle(particles.seed, i)
      IN /\ \A k \in {1, 3} : Abs(p.position[k] - EmitterPosition[k]) <= 1000
         /\ p.position[2] >= 10000 /\ p.position[2] <= 12000
         /\ \A k \in {1, 3} : Abs(p.velocity[k]) <= 1000
         /\ p.velocity[2] >= 0 - 3000 /\ p.velocity[2] <= 0 - 1000
         /\ p.life >= 0 /\ p.life <= 5000
         /\ p.size >= 50 /\ p.size <= 100

\* initialize() has uploaded a store whose first record is more than 1
\* above the emitter and has less than 5 s to live
C18_Witness ==
  /\ JustInitialized
  /\ particles.uploaded /\ particles.count = DefaultParticleCount
  /\ UploadedParticle(particles.seed, 0).position[2] > EmitterPosition[2] + 1000
  /\ UploadedParticle(particles.seed, 0).life < 5000

\* C19: in every state reachable from initialize() by steps, every
\* particle of index below particleCount, read as the device reads
\* particles[i], has size > 0.
C19_SizePositive ==
  particles.uploaded =>
    \A i \in 0..(particles.count - 1), r \in OutOfBounds :
      ParticleRead(particles, i, r).size > 0

\* the indices applyViscosity of lane index samples
ViscositySamples(index, block) ==
  {i \in 0..(block.particleCount - 1) : i % SampleStep(block.particleCount) = 0 /\ i # index}

\* C20: within one dispatch, the viscosity sampling of every lane reads
\* each other particle's position and velocity as they were at the start
\* of the step, whatever the order of the lanes; checked on the elements
\* inside the buffer, when the lane runs.
C20_ViscosityReadsStartOfStep ==
  [][ \A index \in lanes'.done \ lanes.done :
        \A i \in ViscositySamples(index, lanes.block) :
          i < arrayLength(particles) =>
            /\ ParticleAt(particles, i).position = ParticleAt(lanes.pre, i).position
            /\ ParticleAt(particles, i).velocity = ParticleAt(lanes.pre, i).velocity ]_vars

\* C21: in one dispatch each lane writes only the particle slot equal to
\* its own global index: the step of lane index leaves every other slot of
\* the store, and the parameter block, as they were (so no two lanes write
\* the same slot).  The obstacle array is bound read-only and is no state.
C21_LanesWriteOwnSlot ==
  [][ \A index \in lanes'.done \ lanes.done :
        /\ paramsGpu' = paramsGpu
        /\ \A j \in DOMAIN particles'.slots :
             j # index =>
               /\ j \in DOMAIN particles.slots
               /\ particles'.slots[j] = particles.slots[j] ]_vars

\* C22: the lanes whose global index is particleCount or more leave every
\* particle slot unchanged: the step in which they run does not change the
\* particle store.
C22_LanesPastCountNoOp ==
  [][ lanes'.idleLeft < lanes.idleLeft => particles' = particles ]_vars

\* the 61 lanes past particleCount = 3 have run in the second dispatch,
\* on a store the first dispatch has written, before the lanes below 3
C22_Witness ==
  /\ lanes.running /\ hist.dispatches = 2
  /\ lanes.block.particleCount = 3
  /\ LaneCount(lanes.groups) - lanes.block.particleCount = 61
  /\ lanes.idleLeft = 0 /\ lanes.done = {}
  /\ particles.slots # <<>>

\* C23: checkObstacleCollision returns the input velocity reflected about
\* the normal of the last obstacle of the array that contains the particle
\* (with the energy loss of 0.6), whatever the obstacles before it
\* produced, and the input velocity unchanged when no obstacle contains it.
C23_LastObstacleWins ==
  eval.fn = "collision" =>
    eval.returned =
      IF InsideObstacles(eval.pos) = {}
        THEN eval.vel
        ELSE VScale(Reflect(eval.vel, NormalOf(LastObstacle(eval.pos), eval.pos)), 600)

\* a particle inside obstacle 2 and obstacle 5 came out of the test with
\* the velocity obstacle 5 produces, which is not the one obstacle 2 produces
C23_Witness ==
  /\ eval.fn = "collision"
  /\ eval.pos = OverlapPoint
  /\ LastObstacle(eval.pos) = 5
  /\ eval.vel = <<100, 0 - 2000, 2000>>
  /\ eval.returned # VScale(Reflect(eval.vel, NormalOf(2, eval.pos)), 600)
  /\ eval.returned # eval.vel

\* C24: the record layout the host uploads is the layout the kernel
\* reads: for every index i below particleCount, element i of the kernel's
\* array lies inside the uploaded buffer, and the position, velocity, life
\* and size the kernel reads from it are those the host wrote for
\* particle i.
C24_KernelReadsHostLayout ==
  particles.uploaded =>
    \A i \in 0..(particles.count - 1) :
      /\ i < arrayLength(particles)
      /\ KernelParticle(particles.seed, i) = UploadedParticle(particles.seed, i)

\* ------------------------------------------------------------------------
\* Claims about scene switches (specifications AppSpec and SceneSpec)
\* ------------------------------------------------------------------------

\* C25: after a switchScene call has completed, every frame of the render
\* loop renders the scene that is then the current scene of the
\* SceneManager, never a scene that has been replaced.
C25_RenderLoopRendersCurrentScene ==
  (app.lastEvent = "frame" /\ sceneManager.currentScene # "null") =>
    app.renderScene = sceneManager.currentScene

\* whether the scene registered under name has completed initialize() and
\* has not been disposed since
SceneInitialized(name) ==
  IF name = "waterfall" THEN waterfall.initialized ELSE cyberpunk.initialized

\* C26: whenever SceneManager.update() forwards a frame to
\* currentScene.update, that scene has completed initialize() and has not
\* been disposed since, also after a switchScene whose initialize() rejected.
C26_UpdateForwardedToLiveScene ==
  (app.lastEvent = "frame" /\ sceneManager.currentScene # "null") =>
    SceneInitialized(sceneManager.currentScene)

\* the scene registered under name has been disposed no more often than
\* it has been initialized
DisposedPerInitialize(name) ==
  IF name = "waterfall"
    THEN waterfall.sceneDisposeCalls <= waterfall.initializeCalls
    ELSE cyberpunk.sceneDisposeCalls <= cyberpunk.initializeCalls

\* C27: when a switchScene call was made while an earlier one was
\* suspended at its await, then once both have completed the current scene
\* is the one requested last, no other scene is left initialized, and no
\* scene has been disposed more than once per initialize().
C27_OverlappingSwitchesSettle ==
  (sceneManager.overlapped /\ sceneManager.pending = <<>>) =>
    /\ sceneManager.currentScene = sceneManager.requested
    /\ \A n \in SceneNames \ {sceneManager.currentScene} : ~SceneInitialized(n)
    /\ \A n \in SceneNames : DisposedPerInitialize(n)

\* C28: no scene object has initialize() called on it after its dispose()
\* has been called, over any sequence of key presses.
C28_NoInitializeAfterDispose ==
  /\ ~waterfall.initializeAfterDispose
  /\ ~cyberpunk.initializeAfterDispose

\* ------------------------------------------------------------------------
\* Claims about startup failure (specification AppSpec)
\* ------------------------------------------------------------------------

\* AppEngine.initialize() has rejected
EngineInitializeThrew == appEngine.returned = "threw"

\* SceneManager.initialize() has rejected: the scenes were constructed and
\* setupControls() was not reached
SceneManagerInitializeThrew == waterfall.constructed /\ ~sceneManager.controls

\* C29: if AppEngine.initialize() or SceneManager.initialize() throws
\* during Application.init(), the render loop is never started, the error
\* text is written to the loading status, and init() completes without
\* rejecting.
C29_InitFailureHandled ==
  (EngineInitializeThrew \/ SceneManagerInitializeThrew) =>
    /\ app.pc = "failed"
    /\ app.frames = 0 /\ app.renderScene = "null"
    /\ app.status = "error"
    /\ app.initResult = "resolved"

\* on a WebGPU engine the first switch to the waterfall scene rejected
\* (the orchestrator's compute shader could not be created) and init() has
\* ended in its catch block
C29_Witness ==
  /\ SceneManagerInitializeThrew
  /\ appEngine.returned = "true"
  /\ call.op = "initialize" /\ call.outcome = "error"
  /\ app.pc = "failed" /\ app.status = "error" /\ app.initResult = "resolved"

\* ------------------------------------------------------------------------
\* Claims about the life cycle of a particle (specification KernelSpec)
\* ------------------------------------------------------------------------

\* C30: every particle of index below particleCount is respawned again and
\* again under steps of positive deltaTime: in each such step the life of
\* a particle that enters it alive decreases by exactly the clamped
\* deltaTime, and a particle that enters it with life <= 0 leaves it reset
\* at the emitter with a life of 5 or more.  The particles are read as the
\* device reads particles[i].
C30_LifeDecreasesUntilRespawn ==
  (StepDone /\ lanes.block.deltaTime > 0) =>
    \A i \in Slots, r \in OutOfBounds :
      IF Before(i, r).life > 0
        THEN After(i, r).life = Before(i, r).life - lanes.block.deltaTime
        ELSE /\ After(i, r).life >= 5000
             /\ \A k \in 1..3 :
                  Abs(After(i, r).position[k] - EmitterPosition[k]) <= EmitterRadius
====
